---- MODULE Spec2Model ----
(***************************************************************************)
(* Outage-schedule analysis of the Yasno bot (src/schedule_analyzer.py).   *)
(*                                                                         *)
(* A schedule entry is [user_id, username, group, outages]; outages is     *)
(* the ordered list the data source delivered, each outage a record        *)
(* [start_hour, end_hour].  The program carries hours as floats; here an   *)
(* hour is carried in thousandths of an hour (1500 is 1.5 h, 24000 is      *)
(* 24 h), and the conversion to minutes gives, for every such hour of the  *)
(* day, the minutes the program's float arithmetic gives.  The examples in *)
(* minutes (50, 100, 150) are the thousandths that the program converts to *)
(* these minutes.                                                          *)
(*                                                                         *)
(* A period, window or interval is a pair <<start, end>> of minutes since  *)
(* midnight, as the Python tuples (start, end).                            *)
(***************************************************************************)
EXTENDS Integers, Sequences, FiniteSets, Bags, TLC

VARIABLES
    schedules,  \* the schedule entries of the day under analysis
    op,         \* the analysis operation that ran last ("idle": none yet)
    arg,        \* the argument that operation was called with
    ret,        \* the value that operation returned
    registered,         \* the users table: chat id -> rows by registered_at
    calculating_chats,  \* the module's set of chats with /calculate in flight
    invocations         \* the bag of the calls of calculate_command under
                        \* way or just over, each with its locals

analysis_vars == <<schedules, op, arg, ret>>

bot_vars == <<registered, calculating_chats, invocations>>

vars == <<schedules, op, arg, ret, registered, calculating_chats, invocations>>

----------------------------------------------------------------------------
(* Bounds of the model *)

\* at most this many schedule entries in one analysis
MaxUsers == 3

\* at most this many outages in one day, all users together
MaxOutages == 3

\* the outages the data source may deliver in the general specification, as
\* <<start_hour, end_hour>> in thousandths of an hour: 0-1:30 and 1:30-5
\* follow one another, as do 3-12 and 12-24; 3-12 overlaps 1:30-5 in part
\* and the full day 0-24 holds all the others
OutageSlots ==
    {<<0, 1500>>, <<1500, 5000>>, <<3000, 12000>>, <<12000, 24000>>,
     <<0, 24000>>}

\* at most this many chats send /calculate
MaxChats == 2

\* at most this many calls of calculate_command are under way or just
\* over at a time
MaxInvocations == 2

\* the specification of unvalidated outages: at most this many entries
MaxRawUsers == 3

\* and at most this many outages, all users together
MaxRawOutages == 2

\* the outages of the specification of unvalidated outages.  In minutes:
\* 0-100 and 50-150 overlap in part, 0-150 holds 50-100, 300-90 ends before
\* it starts, 720-720 is empty, 720-1440 ends the day, 0-1440 is the full day
RawSlots ==
    {<<0, 1667>>, <<834, 2500>>, <<0, 2500>>, <<834, 1667>>,
     <<5000, 1500>>, <<12000, 12000>>, <<12000, 24000>>, <<0, 24000>>}

----------------------------------------------------------------------------
(* Time conversion *)

\* a conversion that drops the minutes of the fraction
convert_hour_to_minutes_whole_hours(hour) == (hour \div 1000) * 60

\* the fraction of the hour is rounded to the nearest minute
convert_hour_to_minutes_rounded(hour) == (hour * 60 + 500) \div 1000

\* (hour - hours) * 60 is a product of binary floats.  A fraction that is a
\* multiple of a quarter of an hour is exact in binary and so is its
\* product.  When the fraction is another multiple of 0.05 h the exact
\* product is a whole number of minutes, and for the whole hours listed
\* here the float product falls just short of it ((2.3 - 2) * 60 is
\* 17.99999999999999): the hours from 0 to 24, in thousandths, on which
\* int() then drops a minute.  frac is the fraction in thousandths; on
\* every other hour n/1000 from 0 to 24 the float product truncates to the
\* minutes of the exact one.
FloatShortHours(frac) ==
    CASE frac % 250 = 0 -> {}
      [] frac % 250 = 50 -> 2..7
      [] frac % 250 = 100 -> 4..15
      [] frac % 250 = 150 -> (1..3) \cup (16..23)
      [] frac % 250 = 200 /\ frac < 500 -> {1} \cup (8..23)
      [] frac % 250 = 200 /\ frac > 500 -> 8..23
      [] OTHER -> {}

\* int(hour) is hour \div 1000; int((hour - hours) * 60) truncates the
\* float product of the fraction and 60
convert_hour_to_minutes(hour) ==
    LET hours == hour \div 1000
        frac == hour - hours * 1000
        product == (frac * 60) \div 1000
        minutes == IF hours \in FloatShortHours(frac)
                   THEN product - 1 ELSE product
    IN  hours * 60 + minutes

\* the format spec 02d, for the non-negative numbers the program formats
Pad02d(n) == IF n < 10 THEN "0" \o ToString(n) ELSE ToString(n)

minutes_to_hhmm(minutes) ==
    LET hours == minutes \div 60
        mins == minutes % 60
    IN  Pad02d(hours) \o ":" \o Pad02d(mins)

----------------------------------------------------------------------------
(* Outage intervals and availability windows of one user *)

\* Python's order on tuples (start, end): by start, then by end
TupleLess(a, b) == a[1] < b[1] \/ (a[1] = b[1] /\ a[2] < b[2])

\* x put into the sorted list s, after the elements that are not greater
InsertSorted(x, s) ==
    LET k == Cardinality({i \in 1..Len(s) : ~TupleLess(x, s[i])})
    IN  SubSeq(s, 1, k) \o <<x>> \o SubSeq(s, k + 1, Len(s))

\* sorted(intervals): the list in ascending tuple order
RECURSIVE sorted(_)
sorted(intervals) ==
    IF intervals = <<>> THEN <<>>
    ELSE InsertSorted(intervals[Len(intervals)],
                      sorted(SubSeq(intervals, 1, Len(intervals) - 1)))

\* the intervals in the order the outages were given, never sorted
get_outage_intervals_unsorted(outages) ==
    [i \in 1..Len(outages) |->
        <<convert_hour_to_minutes(outages[i].start_hour),
          convert_hour_to_minutes(outages[i].end_hour)>>]

get_outage_intervals(outages) ==
    LET intervals == [i \in 1..Len(outages) |->
                        <<convert_hour_to_minutes(outages[i].start_hour),
                          convert_hour_to_minutes(outages[i].end_hour)>>]
    IN  sorted(intervals)

\* the window before the first outage, whether or not it has a minute
before_first_unguarded(outage_intervals) ==
    << <<0, outage_intervals[1][1]>> >>

\* the window before the first outage, when the outage does not start at 0
before_first(outage_intervals) ==
    IF outage_intervals[1][1] > 0
    THEN << <<0, outage_intervals[1][1]>> >>
    ELSE <<>>

\* a gap test that lets the empty gap between touching outages through
IsProperGap_or_empty(gap) == gap[1] <= gap[2]

\* gap_start < gap_end
IsProperGap(gap) == gap[1] < gap[2]

\* the windows between adjacent outages of the sorted list
between_outages(outage_intervals) ==
    LET gaps == [i \in 1..(Len(outage_intervals) - 1) |->
                    <<outage_intervals[i][2], outage_intervals[i + 1][1]>>]
    IN  SelectSeq(gaps, IsProperGap)

\* no window after the last outage
after_last_forgotten(outage_intervals) == <<>>

\* the window after the last outage, when the outage ends before 24*60
after_last(outage_intervals) ==
    LET n == Len(outage_intervals)
    IN  IF outage_intervals[n][2] < 24 * 60
        THEN << <<outage_intervals[n][2], 24 * 60>> >>
        ELSE <<>>

\* the guard is forgotten: the list is never taken for empty
no_outages_never(outage_intervals) == FALSE

\* if not outage_intervals
no_outages(outage_intervals) == Len(outage_intervals) = 0

\* no window at all for a user without outages
get_electricity_periods_none_when_empty(outages) ==
    LET outage_intervals == get_outage_intervals(outages)
    IN  IF no_outages(outage_intervals) THEN <<>>
        ELSE before_first(outage_intervals) \o
             between_outages(outage_intervals) \o
             after_last(outage_intervals)

get_electricity_periods(outages) ==
    LET outage_intervals == get_outage_intervals(outages)
    IN  IF no_outages(outage_intervals) THEN << <<0, 24 * 60>> >>
        ELSE before_first(outage_intervals) \o
             between_outages(outage_intervals) \o
             after_last(outage_intervals)

\* outage_intervals[0] and outage_intervals[-1] raise IndexError on an empty
\* list: the call raises when it reaches them with no interval
get_electricity_periods_raises(outages) ==
    LET outage_intervals == get_outage_intervals(outages)
    IN  ~no_outages(outage_intervals) /\ Len(outage_intervals) = 0

----------------------------------------------------------------------------
(* Windows common to all users *)

\* sorted(list(all_points)) for a set of minutes
RECURSIVE SortedPoints(_)
SortedPoints(S) ==
    IF S = {} THEN <<>>
    ELSE LET m == CHOOSE x \in S : \A y \in S : x <= y
         IN  <<m>> \o SortedPoints(S \ {m})

\* a window test that also holds the window's end minute
has_power_end_inclusive(electricity_periods, point) ==
    \E k \in 1..Len(electricity_periods) :
        electricity_periods[k][1] <= point /\ point <= electricity_periods[k][2]

\* the inner loop: some window of the user holds the point (half-open)
has_power(electricity_periods, point) ==
    \E k \in 1..Len(electricity_periods) :
        electricity_periods[k][1] <= point /\ point < electricity_periods[k][2]

\* only the first user of the list is asked
all_have_power_first_only(scheds, point) ==
    has_power(get_electricity_periods(scheds[1].outages), point)

\* a test that is content with one user having power
all_have_power_any(scheds, point) ==
    \E s \in 1..Len(scheds) :
        has_power(get_electricity_periods(scheds[s].outages), point)

\* the loop over the users at one point
all_have_power(scheds, point) ==
    \A s \in 1..Len(scheds) :
        has_power(get_electricity_periods(scheds[s].outages), point)

\* the merge step: extend the previous period or start a new one
merge_period(common_periods, point, next_point) ==
    LET n == Len(common_periods)
    IN  IF n > 0 /\ common_periods[n][2] = point
        THEN [common_periods EXCEPT ![n] = <<common_periods[n][1], next_point>>]
        ELSE Append(common_periods, <<point, next_point>>)

\* the loop over the adjacent pairs of all_points, from index i on
RECURSIVE sweep(_, _, _, _)
sweep(scheds, all_points, i, common_periods) ==
    IF i > Len(all_points) - 1 THEN common_periods
    ELSE LET point == all_points[i]
             next_point == all_points[i + 1]
         IN  sweep(scheds, all_points, i + 1,
                   IF all_have_power(scheds, point)
                   THEN merge_period(common_periods, point, next_point)
                   ELSE common_periods)

\* only the starts of the windows are collected
collect_points_starts_only(scheds) ==
    {0, 24 * 60} \cup
    UNION {LET periods == get_electricity_periods(scheds[s].outages)
           IN  {periods[k][1] : k \in 1..Len(periods)}
           : s \in 1..Len(scheds)}

\* the boundary points of every user's windows, with 0 and 24*60
collect_points(scheds) ==
    {0, 24 * 60} \cup
    UNION {LET periods == get_electricity_periods(scheds[s].outages)
           IN  UNION {{periods[k][1], periods[k][2]} : k \in 1..Len(periods)}
           : s \in 1..Len(scheds)}

\* no branch for a single entry: nothing is returned for it
find_common_electricity_periods_no_single(scheds) ==
    IF Len(scheds) <= 1 THEN << <<>>, <<>> >>
    ELSE <<sweep(scheds, SortedPoints(collect_points(scheds)), 1, <<>>), <<>>>>

\* returns the pair (common_periods, [])
find_common_electricity_periods(scheds) ==
    IF Len(scheds) = 0 THEN << <<>>, <<>> >>
    ELSE IF Len(scheds) = 1
    THEN <<get_electricity_periods(scheds[1].outages), <<>>>>
    ELSE <<sweep(scheds, SortedPoints(collect_points(scheds)), 1, <<>>), <<>>>>

\* the call raises when a call of get_electricity_periods in it does
find_common_electricity_periods_raises(scheds) ==
    /\ Len(scheds) >= 1
    /\ \E s \in 1..Len(scheds) : get_electricity_periods_raises(scheds[s].outages)

----------------------------------------------------------------------------
(* Windows where all users but one have power *)

\* the excluded user is left among the others
other_schedules_all(scheds, excluded_idx) == scheds

\* schedules[:excluded_idx] + schedules[excluded_idx+1:], 1-based
other_schedules(scheds, excluded_idx) ==
    SubSeq(scheds, 1, excluded_idx - 1) \o
    SubSeq(scheds, excluded_idx + 1, Len(scheds))

\* max and min exchanged: the span of the two intervals
overlap_span(other, outage) ==
    <<IF other[1] < outage[1] THEN other[1] ELSE outage[1],
      IF other[2] > outage[2] THEN other[2] ELSE outage[2]>>

\* max(other_start, outage_start), min(other_end, outage_end)
overlap(other, outage) ==
    <<IF other[1] > outage[1] THEN other[1] ELSE outage[1],
      IF other[2] < outage[2] THEN other[2] ELSE outage[2]>>

HasOverlap(r) == r.start < r.end

\* the two inner loops for one excluded user: every pair of a common period
\* of the others and an outage of the excluded user, common periods outermost
excluded_results(scheds, excluded_idx) ==
    LET excluded_schedule == scheds[excluded_idx]
        excluded_outages == get_outage_intervals(excluded_schedule.outages)
        common_periods ==
            find_common_electricity_periods(other_schedules(scheds, excluded_idx))[1]
        no == Len(excluded_outages)
        pairs == [k \in 1..(Len(common_periods) * no) |->
                    LET other == common_periods[((k - 1) \div no) + 1]
                        outage == excluded_outages[((k - 1) % no) + 1]
                        overlap_start == overlap(other, outage)[1]
                        overlap_end == overlap(other, outage)[2]
                    IN  [missing_user_id |-> excluded_schedule.user_id,
                         missing_username |-> excluded_schedule.username,
                         start |-> overlap_start,
                         end |-> overlap_end,
                         start_hhmm |-> minutes_to_hhmm(overlap_start),
                         end_hhmm |-> minutes_to_hhmm(overlap_end),
                         duration_minutes |-> overlap_end - overlap_start]]
    IN  SelectSeq(pairs, HasOverlap)

\* the outer loop, from excluded_idx on
RECURSIVE n_minus_one_from(_, _)
n_minus_one_from(scheds, excluded_idx) ==
    IF excluded_idx > Len(scheds) THEN <<>>
    ELSE excluded_results(scheds, excluded_idx) \o
         n_minus_one_from(scheds, excluded_idx + 1)

find_n_minus_one_periods(scheds) ==
    IF Len(scheds) < 2 THEN <<>>
    ELSE n_minus_one_from(scheds, 1)

\* every entry is among the others of some excluded user, so the call
\* raises when find_common_electricity_periods does for them
find_n_minus_one_periods_raises(scheds) ==
    /\ Len(scheds) >= 2
    /\ \E e \in 1..Len(scheds) :
        find_common_electricity_periods_raises(other_schedules(scheds, e))

----------------------------------------------------------------------------
(* What a call leaves of its argument *)

\* Python's order on the outages as an in-place sort by hours would see them
SortedOutages(outages) ==
    LET s == sorted([i \in 1..Len(outages) |->
                        <<outages[i].start_hour, outages[i].end_hour>>])
    IN  [i \in 1..Len(s) |-> [start_hour |-> s[i][1], end_hour |-> s[i][2]]]

\* get_outage_intervals reads the caller's outages into a new list and
\* sorted() builds another: the caller's list is as it was, which is what
\* the calls on Python's objects below leave of it
caller_outages_after(outages) == outages

\* the caller's entries after a call that went through every entry
caller_schedules_after(scheds) ==
    [s \in 1..Len(scheds) |->
        [scheds[s] EXCEPT !.outages = caller_outages_after(@)]]

----------------------------------------------------------------------------
(* The three operations on Python's objects.  The heap is the list of the  *)
(* objects that exist, an object's address its place in it: a list object  *)
(* is the sequence of its items, a set object the set of its members, a    *)
(* dict object a record.  A tuple of minutes and a number are values; an   *)
(* item that is a dict or a list is held by its address.  An operation     *)
(* writes where Python's does: append, add and item assignment change the  *)
(* object at the address, sorted(), slicing, + and a display make a new    *)
(* object.  A call returns the heap it leaves and what it returned.        *)

\* a statement after another: the value of the first is computed once and
\* the rest goes on with it
Then(value, Rest(_)) == CHOOSE result \in {Rest(v) : v \in {value}} : TRUE

\* a new object, at the next address
alloc(heap, object) ==
    Then(heap, LAMBDA h : [heap |-> Append(h, object), ref |-> Len(h) + 1])

\* [] : a new empty list
new_list(heap) == alloc(heap, <<>>)

\* list.append(item), for each of the items in turn: the list at the
\* address grows where it is
RECURSIVE append_each(_, _, _)
append_each(heap, list, items) ==
    Then(items, LAMBDA rest :
        IF rest = <<>> THEN heap
        ELSE Then([heap EXCEPT ![list] = Append(@, Head(rest))],
                  LAMBDA appended : append_each(appended, list, Tail(rest))))

\* the entry of a caller put on the heap: its outage dicts, the list of
\* them and the entry's dict, which holds the list by its address
load_entry(heap, entry) ==
    LET n == Len(entry.outages)
        outage_list == [k \in 1..n |-> Len(heap) + k]
        with_list == Append(heap \o entry.outages, outage_list)
    IN  alloc(with_list, [entry EXCEPT !.outages = Len(with_list)])

\* the caller's entries put on the heap one by one, then the list of them
RECURSIVE load_schedules(_, _, _)
load_schedules(heap, scheds, refs) ==
    IF scheds = <<>> THEN alloc(heap, refs)
    ELSE Then(load_entry(heap, Head(scheds)), LAMBDA entry :
            load_schedules(entry.heap, Tail(scheds), Append(refs, entry.ref)))

\* the outage list at an address as the caller sees it: its dicts in order
outages_at(heap, list) ==
    [k \in 1..Len(heap[list]) |-> heap[heap[list][k]]]

\* the schedule list at an address as the caller sees it: the entries in
\* order, each with its outage list
schedules_at(heap, list) ==
    [s \in 1..Len(heap[list]) |->
        [heap[heap[list][s]] EXCEPT !.outages = outages_at(heap, @)]]

\* for outage in outages: intervals.append((start, end)), from outage k on
RECURSIVE Heap_append_intervals(_, _, _, _)
Heap_append_intervals(heap, outages, k, intervals) ==
    IF k > Len(heap[outages]) THEN heap
    ELSE LET outage == heap[heap[outages][k]]
             start == convert_hour_to_minutes(outage.start_hour)
             end == convert_hour_to_minutes(outage.end_hour)
         IN  Then(append_each(heap, intervals, << <<start, end>> >>),
                  LAMBDA appended :
                    Heap_append_intervals(appended, outages, k + 1, intervals))

\* sorted(list): a new list in order, the list at the address as it was
Heap_sorted(heap, list) == alloc(heap, sorted(heap[list]))

\* get_outage_intervals on the outage list at the address outages
Heap_get_outage_intervals(heap, outages) ==
    Then(new_list(heap), LAMBDA intervals :
    Then(Heap_append_intervals(intervals.heap, outages, 1, intervals.ref),
         LAMBDA filled :
    Heap_sorted(filled, intervals.ref)))

\* get_electricity_periods on the outage list at the address outages
Heap_get_electricity_periods(heap, outages) ==
    Then(Heap_get_outage_intervals(heap, outages), LAMBDA got :
    Then(got.heap[got.ref], LAMBDA outage_intervals :
        IF no_outages(outage_intervals)
        THEN alloc(got.heap, << <<0, 24 * 60>> >>)
        ELSE Then(new_list(got.heap), LAMBDA electricity_periods :
             Then(append_each(electricity_periods.heap,
                              electricity_periods.ref,
                              before_first(outage_intervals)),
                  LAMBDA first :
             Then(append_each(first, electricity_periods.ref,
                              between_outages(outage_intervals)),
                  LAMBDA gaps :
             Then(append_each(gaps, electricity_periods.ref,
                              after_last(outage_intervals)),
                  LAMBDA last :
             [heap |-> last, ref |-> electricity_periods.ref]))))))

\* for schedule in schedules: the windows of the schedule, and all_points
\* gets the start and the end of each, from schedule s on
RECURSIVE Heap_collect_points(_, _, _, _)
Heap_collect_points(heap, scheds, s, all_points) ==
    IF s > Len(heap[scheds]) THEN heap
    ELSE Then(heap[heap[scheds][s]], LAMBDA schedule :
         Then(Heap_get_electricity_periods(heap, schedule.outages),
              LAMBDA got :
         Then(got.heap[got.ref], LAMBDA periods :
         Then([got.heap EXCEPT ![all_points] =
                    @ \cup UNION {{periods[k][1], periods[k][2]} :
                                    k \in 1..Len(periods)}],
              LAMBDA added :
         Heap_collect_points(added, scheds, s + 1, all_points)))))

\* for schedule in schedules, from schedule s on: the windows of the
\* schedule are computed, and the loop breaks at the first one without
\* power at the point
RECURSIVE Heap_all_have_power(_, _, _, _)
Heap_all_have_power(heap, scheds, s, point) ==
    IF s > Len(heap[scheds]) THEN [heap |-> heap, ret |-> TRUE]
    ELSE Then(heap[heap[scheds][s]], LAMBDA schedule :
         Then(Heap_get_electricity_periods(heap, schedule.outages),
              LAMBDA got :
            IF has_power(got.heap[got.ref], point)
            THEN Heap_all_have_power(got.heap, scheds, s + 1, point)
            ELSE [heap |-> got.heap, ret |-> FALSE]))

\* the loop over the adjacent pairs of all_points, from index i on:
\* common_periods[-1] is assigned or a period is appended, in the list
RECURSIVE Heap_sweep(_, _, _, _, _)
Heap_sweep(heap, scheds, all_points, i, common_periods) ==
    IF i > Len(heap[all_points]) - 1 THEN heap
    ELSE LET point == heap[all_points][i]
             next_point == heap[all_points][i + 1]
         IN  Then(Heap_all_have_power(heap, scheds, 1, point), LAMBDA asked :
             Then(IF asked.ret
                  THEN [asked.heap EXCEPT ![common_periods] =
                            merge_period(@, point, next_point)]
                  ELSE asked.heap,
                  LAMBDA merged :
             Heap_sweep(merged, scheds, all_points, i + 1, common_periods)))

\* find_common_electricity_periods on the schedule list at the address
\* schedules; the tuple returned holds the addresses of its two lists
Heap_find_common_electricity_periods(heap, scheds) ==
    IF Len(heap[scheds]) = 0
    THEN Then(new_list(heap), LAMBDA periods :
         Then(new_list(periods.heap), LAMBDA none :
         [heap |-> none.heap, ref |-> <<periods.ref, none.ref>>]))
    ELSE IF Len(heap[scheds]) = 1
    THEN Then(heap[heap[scheds][1]], LAMBDA schedule :
         Then(Heap_get_electricity_periods(heap, schedule.outages),
              LAMBDA periods :
         Then(new_list(periods.heap), LAMBDA none :
         [heap |-> none.heap, ref |-> <<periods.ref, none.ref>>])))
    ELSE Then(alloc(heap, {0, 24 * 60}), LAMBDA point_set :
         Then(Heap_collect_points(point_set.heap, scheds, 1, point_set.ref),
              LAMBDA collected :
         Then(alloc(collected, SortedPoints(collected[point_set.ref])),
              LAMBDA all_points :
         Then(new_list(all_points.heap), LAMBDA common_periods :
         Then(Heap_sweep(common_periods.heap, scheds, all_points.ref, 1,
                         common_periods.ref),
              LAMBDA swept :
         Then(new_list(swept), LAMBDA none :
         [heap |-> none.heap,
          ref |-> <<common_periods.ref, none.ref>>]))))))

\* del schedules[excluded_idx]: the caller's own list loses the entry
Heap_delete_in_place(heap, scheds, excluded_idx) ==
    [heap |-> [heap EXCEPT ![scheds] = other_schedules(@, excluded_idx)],
     ref |-> scheds]

\* schedules[:excluded_idx] + schedules[excluded_idx+1:]: a new list that
\* holds the entries of the two slices, the entries themselves shared
Heap_other_schedules(heap, scheds, excluded_idx) ==
    alloc(heap, other_schedules(heap[scheds], excluded_idx))

\* the two inner loops for one excluded user: the dicts of the pairs of a
\* common period of the others and an outage of the excluded user that
\* overlap, common periods outermost
Heap_overlaps(excluded_schedule, common_periods, excluded_outages) ==
    LET no == Len(excluded_outages)
        pairs == [k \in 1..(Len(common_periods) * no) |->
                    LET other == common_periods[((k - 1) \div no) + 1]
                        outage == excluded_outages[((k - 1) % no) + 1]
                        overlap_start == overlap(other, outage)[1]
                        overlap_end == overlap(other, outage)[2]
                    IN  [missing_user_id |-> excluded_schedule.user_id,
                         missing_username |-> excluded_schedule.username,
                         start |-> overlap_start,
                         end |-> overlap_end,
                         start_hhmm |-> minutes_to_hhmm(overlap_start),
                         end_hhmm |-> minutes_to_hhmm(overlap_end),
                         duration_minutes |-> overlap_end - overlap_start]]
    IN  SelectSeq(pairs, HasOverlap)

\* for excluded_idx, excluded_schedule in enumerate(schedules), from
\* excluded_idx on; a dict appended to results is its own new value
RECURSIVE Heap_n_minus_one_from(_, _, _, _)
Heap_n_minus_one_from(heap, scheds, excluded_idx, results) ==
    IF excluded_idx > Len(heap[scheds]) THEN heap
    ELSE Then(heap[heap[scheds][excluded_idx]], LAMBDA excluded_schedule :
         Then(Heap_get_outage_intervals(heap, excluded_schedule.outages),
              LAMBDA excluded_outages :
         Then(Heap_other_schedules(excluded_outages.heap, scheds,
                                   excluded_idx),
              LAMBDA others :
         Then(Heap_find_common_electricity_periods(others.heap, others.ref),
              LAMBDA common :
         Then(Heap_overlaps(excluded_schedule, common.heap[common.ref[1]],
                            common.heap[excluded_outages.ref]),
              LAMBDA found :
         Then(append_each(common.heap, results, found), LAMBDA appended :
         Heap_n_minus_one_from(appended, scheds, excluded_idx + 1,
                               results)))))))

\* find_n_minus_one_periods on the schedule list at the address schedules
Heap_find_n_minus_one_periods(heap, scheds) ==
    IF Len(heap[scheds]) < 2 THEN new_list(heap)
    ELSE Then(new_list(heap), LAMBDA results :
         Then(Heap_n_minus_one_from(results.heap, scheds, 1, results.ref),
              LAMBDA left :
         [heap |-> left, ref |-> results.ref]))

----------------------------------------------------------------------------
(* The bot's state: the users table, the chats in flight, the calls *)

Chats == 1..MaxChats

\* the row of user id as get_chat_users returns it, the user registered
\* under the name "user<id>" in the group "<id>.1"
UserRow(id) ==
    [user_id |-> id, username |-> "user" \o ToString(id),
     group |-> ToString(id) \o ".1"]

\* a call of calculate_command as it begins: no chat yet, no locals
NewInvocation ==
    [pc |-> "new", chat_id |-> 0, users |-> <<>>,
     schedules_today |-> <<>>, schedules_tomorrow |-> <<>>, errors |-> <<>>,
     analysed |-> FALSE, common_today |-> <<>>, common_tomorrow |-> <<>>,
     sends |-> <<>>]

\* the bot at its start: calculating_chats = set(), nobody registered
BotIdle ==
    /\ registered = [c \in Chats |-> <<>>]
    /\ calculating_chats = {}
    /\ invocations = EmptyBag

----------------------------------------------------------------------------
(* The state machine: the day's entries are gathered, then analysed *)

Outage(s, e) == [start_hour |-> s, end_hour |-> e]

\* the entry the caller builds of a user's row and the outages fetched
Entry(id, outages) ==
    [user_id |-> id, username |-> "user" \o ToString(id),
     group |-> ToString(id) \o ".1", outages |-> outages]

\* the lists of at most n outages out of slots, in any order, slots repeated
OutageListsOf(slots, n) ==
    UNION {[1..k -> {Outage(slot[1], slot[2]) : slot \in slots}] : k \in 0..n}

RECURSIVE TotalOutages(_)
TotalOutages(scheds) ==
    IF scheds = <<>> THEN 0
    ELSE Len(scheds[1].outages) + TotalOutages(Tail(scheds))

Init ==
    /\ schedules = <<>>
    /\ op = "idle"
    /\ arg = <<>>
    /\ ret = <<>>
    /\ BotIdle

\* the caller appends the entry of one more user, with the outages fetched
\* for the user in the order the data source delivered them
AddUser ==
    /\ op = "idle"
    /\ Len(schedules) < MaxUsers
    /\ \E outages \in OutageListsOf(OutageSlots,
                                     MaxOutages - TotalOutages(schedules)) :
        schedules' = Append(schedules, Entry(Len(schedules) + 1, outages))
    /\ UNCHANGED <<op, arg, ret>>
    /\ UNCHANGED bot_vars

\* a call of get_electricity_periods on one entry's outages
GetElectricityPeriods ==
    /\ op = "idle"
    /\ \E i \in 1..Len(schedules) :
        /\ arg' = schedules[i].outages
        /\ IF get_electricity_periods_raises(schedules[i].outages)
           THEN op' = "error" /\ ret' = <<>>
           ELSE /\ op' = "get_electricity_periods"
                /\ ret' = get_electricity_periods(schedules[i].outages)
        /\ schedules' = [schedules EXCEPT
                            ![i].outages = caller_outages_after(@)]
    /\ UNCHANGED bot_vars

\* a call of find_common_electricity_periods on the day's entries
FindCommonElectricityPeriods ==
    /\ op = "idle"
    /\ arg' = schedules
    /\ IF find_common_electricity_periods_raises(schedules)
       THEN op' = "error" /\ ret' = <<>>
       ELSE /\ op' = "find_common_electricity_periods"
            /\ ret' = find_common_electricity_periods(schedules)
    /\ schedules' = caller_schedules_after(schedules)
    /\ UNCHANGED bot_vars

\* a call of find_n_minus_one_periods on the day's entries
FindNMinusOnePeriods ==
    /\ op = "idle"
    /\ arg' = schedules
    /\ IF find_n_minus_one_periods_raises(schedules)
       THEN op' = "error" /\ ret' = <<>>
       ELSE /\ op' = "find_n_minus_one_periods"
            /\ ret' = find_n_minus_one_periods(schedules)
    /\ schedules' = IF Len(schedules) < 2 THEN schedules
                    ELSE caller_schedules_after(schedules)
    /\ UNCHANGED bot_vars

\* the caller has used the returned value and drops it; the entries stay
Discard ==
    /\ op # "idle"
    /\ op' = "idle"
    /\ arg' = <<>>
    /\ ret' = <<>>
    /\ UNCHANGED schedules
    /\ UNCHANGED bot_vars

Next ==
    \/ AddUser
    \/ GetElectricityPeriods
    \/ FindCommonElectricityPeriods
    \/ FindNMinusOnePeriods
    \/ Discard

Spec == Init /\ [][Next]_vars

\* the entries gathered and analysed for the windows of each user and the
\* periods common to all of them
NextCommon ==
    \/ AddUser
    \/ GetElectricityPeriods
    \/ FindCommonElectricityPeriods
    \/ Discard

SpecCommon == Init /\ [][NextCommon]_vars

----------------------------------------------------------------------------
(* Unvalidated outages: overlapping, empty and reversed ones included *)

\* the caller appends the entry of one more user, with the outages fetched
AddRawUser ==
    /\ op = "idle"
    /\ Len(schedules) < MaxRawUsers
    /\ \E outages \in OutageListsOf(RawSlots,
                                     MaxRawOutages - TotalOutages(schedules)) :
        schedules' = Append(schedules, Entry(Len(schedules) + 1, outages))
    /\ UNCHANGED <<op, arg, ret>>
    /\ UNCHANGED bot_vars

NextRaw ==
    \/ AddRawUser
    \/ GetElectricityPeriods
    \/ FindCommonElectricityPeriods
    \/ FindNMinusOnePeriods
    \/ Discard

SpecRaw == Init /\ [][NextRaw]_vars

----------------------------------------------------------------------------
(* The pairwise fold of src/debug_analyzer.py, with its own copies of the  *)
(* conversion and of the windows                                           *)

\* what a Python function returns when it returns nothing
None == "None"

\* ScheduleAnalyzerDebug.convert_hour_to_minutes
Debug_convert_hour_to_minutes(hour) ==
    LET hours == hour \div 1000
        frac == hour - hours * 1000
        product == (frac * 60) \div 1000
        minutes == IF hours \in FloatShortHours(frac)
                   THEN product - 1 ELSE product
    IN  hours * 60 + minutes

\* ScheduleAnalyzerDebug.get_outage_intervals
Debug_get_outage_intervals(outages) ==
    sorted([i \in 1..Len(outages) |->
                <<Debug_convert_hour_to_minutes(outages[i].start_hour),
                  Debug_convert_hour_to_minutes(outages[i].end_hour)>>])

\* the gaps between the outages from index i on
RECURSIVE Debug_gaps(_, _)
Debug_gaps(outage_intervals, i) ==
    IF i > Len(outage_intervals) - 1 THEN <<>>
    ELSE LET gap_start == outage_intervals[i][2]
             gap_end == outage_intervals[i + 1][1]
         IN  (IF gap_start < gap_end THEN << <<gap_start, gap_end>> >>
              ELSE <<>>) \o Debug_gaps(outage_intervals, i + 1)

\* ScheduleAnalyzerDebug.get_electricity_periods
Debug_get_electricity_periods(outages) ==
    LET outage_intervals == Debug_get_outage_intervals(outages)
        n == Len(outage_intervals)
    IN  IF n = 0 THEN << <<0, 24 * 60>> >>
        ELSE (IF outage_intervals[1][1] > 0
              THEN << <<0, outage_intervals[1][1]>> >> ELSE <<>>) \o
             Debug_gaps(outage_intervals, 1) \o
             (IF outage_intervals[n][2] < 24 * 60
              THEN << <<outage_intervals[n][2], 24 * 60>> >> ELSE <<>>)

Max(a, b) == IF a >= b THEN a ELSE b

Min(a, b) == IF a <= b THEN a ELSE b

\* the span of the two periods is taken for their overlap
candidate_overlap_span(common_period, user_period) ==
    <<Min(common_period[1], user_period[1]),
      Max(common_period[2], user_period[2])>>

\* overlap_start = max(...), overlap_end = min(...)
candidate_overlap(common_period, user_period) ==
    <<Max(common_period[1], user_period[1]),
      Min(common_period[2], user_period[2])>>

\* new_common: the overlaps with a minute, of every period of common with
\* every period of the user
new_common(common, periods) ==
    {o \in {candidate_overlap(c, periods[k]) :
                c \in common, k \in 1..Len(periods)} : o[1] < o[2]}

\* for user_data in all_user_periods[1:], from index i on
RECURSIVE intersect_with_others(_, _, _)
intersect_with_others(common, all_user_periods, i) ==
    IF i > Len(all_user_periods) THEN common
    ELSE intersect_with_others(new_common(common, all_user_periods[i]),
                               all_user_periods, i + 1)

\* ScheduleAnalyzerDebug.debug_schedules: the set common, or nothing for
\* fewer than two entries
debug_schedules(scheds) ==
    LET all_user_periods ==
            [s \in 1..Len(scheds) |->
                Debug_get_electricity_periods(scheds[s].outages)]
    IN  IF Len(all_user_periods) < 2 THEN None
        ELSE intersect_with_others(
                {all_user_periods[1][k] : k \in 1..Len(all_user_periods[1])},
                all_user_periods, 2)

\* a call of debug_schedules on the day's entries
DebugSchedules ==
    /\ op = "idle"
    /\ arg' = schedules
    /\ ret' = debug_schedules(schedules)
    /\ op' = "debug_schedules"
    /\ UNCHANGED schedules
    /\ UNCHANGED bot_vars

NextDebug ==
    \/ AddUser
    \/ DebugSchedules
    \/ Discard

SpecDebug == Init /\ [][NextDebug]_vars

----------------------------------------------------------------------------
(* Entries appended with their outages, for the order of the users *)

\* at most this many entries
MaxOrderUsers == 3

\* the outage lists an entry is appended with: none, one outage, two apart
\* and out of order, two overlapping and out of order, a reversed one, the
\* full day
OutageLists ==
    {<<>>,
     <<Outage(1500, 5000)>>,
     <<Outage(12000, 24000), Outage(0, 1500)>>,
     <<Outage(3000, 12000), Outage(1500, 5000)>>,
     <<Outage(5000, 1500)>>,
     <<Outage(0, 24000)>>}

\* the caller appends the entry of one more user with the outages fetched
AppendEntry ==
    /\ op = "idle"
    /\ Len(schedules) < MaxOrderUsers
    /\ \E outages \in OutageLists :
        schedules' = Append(schedules, Entry(Len(schedules) + 1, outages))
    /\ UNCHANGED <<op, arg, ret>>
    /\ UNCHANGED bot_vars

NextOrder ==
    \/ AppendEntry
    \/ FindCommonElectricityPeriods
    \/ FindNMinusOnePeriods
    \/ Discard

SpecOrder == Init /\ [][NextOrder]_vars

----------------------------------------------------------------------------
(* The calls of the three operations on Python's objects *)

\* a call of get_electricity_periods on the outages of one entry, run on
\* the heap that holds the caller's entries
CallGetElectricityPeriods ==
    /\ op = "idle"
    /\ \E i \in 1..Len(schedules) :
       \E caller \in {load_schedules(<<>>, schedules, <<>>)} :
       \E entry \in {caller.heap[caller.heap[caller.ref][i]]} :
       \E call \in {Heap_get_electricity_periods(caller.heap,
                                                 entry.outages)} :
            /\ arg' = schedules[i].outages
            /\ ret' = call.heap[call.ref]
            /\ schedules' = schedules_at(call.heap, caller.ref)
    /\ op' = "get_electricity_periods"
    /\ UNCHANGED bot_vars

\* a call of find_common_electricity_periods on the caller's list
CallFindCommonElectricityPeriods ==
    /\ op = "idle"
    /\ \E caller \in {load_schedules(<<>>, schedules, <<>>)} :
       \E call \in {Heap_find_common_electricity_periods(caller.heap,
                                                         caller.ref)} :
            /\ arg' = schedules
            /\ ret' = <<call.heap[call.ref[1]], call.heap[call.ref[2]]>>
            /\ schedules' = schedules_at(call.heap, caller.ref)
    /\ op' = "find_common_electricity_periods"
    /\ UNCHANGED bot_vars

\* a call of find_n_minus_one_periods on the caller's list
CallFindNMinusOnePeriods ==
    /\ op = "idle"
    /\ \E caller \in {load_schedules(<<>>, schedules, <<>>)} :
       \E call \in {Heap_find_n_minus_one_periods(caller.heap,
                                                  caller.ref)} :
            /\ arg' = schedules
            /\ ret' = call.heap[call.ref]
            /\ schedules' = schedules_at(call.heap, caller.ref)
    /\ op' = "find_n_minus_one_periods"
    /\ UNCHANGED bot_vars

\* the entries appended, with outages in and out of order, and analysed,
\* each call run on Python's objects
NextHeap ==
    \/ AppendEntry
    \/ CallGetElectricityPeriods
    \/ CallFindCommonElectricityPeriods
    \/ CallFindNMinusOnePeriods
    \/ Discard

SpecHeap == Init /\ [][NextHeap]_vars

----------------------------------------------------------------------------
(* The conversion of hours alone *)

\* every hour of the day that is a whole number of thousandths
HourValues == 0..24000

\* a call of convert_hour_to_minutes
ConvertHourToMinutes ==
    /\ op = "idle"
    /\ \E hour \in HourValues :
        /\ arg' = hour
        /\ ret' = convert_hour_to_minutes(hour)
    /\ op' = "convert_hour_to_minutes"
    /\ UNCHANGED schedules
    /\ UNCHANGED bot_vars

NextConvert == ConvertHourToMinutes \/ Discard

SpecConvert == Init /\ [][NextConvert]_vars

----------------------------------------------------------------------------
(* The users table of src/database.py.  A row carries registered_at, the   *)
(* CURRENT_TIMESTAMP of its INSERT in whole seconds, which the model keeps *)
(* relative to the clock: the second now running, or an earlier one.  The  *)
(* rows of a chat are kept in the order get_chat_users reads them: by      *)
(* registered_at, and the rows of one second by user_id, the order of the  *)
(* index of UNIQUE(chat_id, user_id) through which the database reads a    *)
(* chat's rows before it sorts them.                                       *)

\* the users who register in a chat
DbUsers == {1, 2}

\* the name and the group a user registers with
DbProfiles == {<<"Anton", "3.1">>, <<"Danilo", "6.1">>}

\* registered_at of a row inserted in the second now running
ThisSecond == "this second"

\* registered_at of a row inserted in a second that is over
Earlier == "earlier"

\* a row of the table as a dict of user_id, username and group
UserDict(row) ==
    [user_id |-> row.user_id, username |-> row.username, group |-> row.group]

\* SELECT ... WHERE chat_id = ? AND user_id = ?
select_user(table, chat_id, user_id) ==
    SelectSeq(table[chat_id], LAMBDA row : row.user_id = user_id)

\* get_user: the first row selected as a dict, or None
get_user(table, chat_id, user_id) ==
    LET rows == select_user(table, chat_id, user_id)
    IN  IF rows # <<>> THEN UserDict(rows[1]) ELSE None

\* get_chat_users: the chat's rows ORDER BY registered_at, as dicts
get_chat_users(table, chat_id) ==
    [k \in 1..Len(table[chat_id]) |-> UserDict(table[chat_id][k])]

\* the rows with the new row at its place: after the rows of earlier
\* seconds and the rows of this second with a smaller user_id
insert_row(rows, new) ==
    SelectSeq(rows, LAMBDA row : \/ row.registered_at = Earlier
                                 \/ row.user_id < new.user_id)
    \o <<new>> \o
    SelectSeq(rows, LAMBDA row : /\ row.registered_at = ThisSecond
                                 /\ row.user_id > new.user_id)

\* a plain INSERT: the row of the pair, if any, stays
register_user_insert_only(table, chat_id, user_id, username, group) ==
    [table EXCEPT ![chat_id] =
        insert_row(@, [user_id |-> user_id, username |-> username,
                       group |-> group, registered_at |-> ThisSecond])]

\* INSERT OR REPLACE: the row that conflicts on (chat_id, user_id) is
\* deleted and the new row is inserted, with the registered_at of now
register_user(table, chat_id, user_id, username, group) ==
    [table EXCEPT ![chat_id] =
        insert_row(SelectSeq(@, LAMBDA row : row.user_id # user_id),
                   [user_id |-> user_id, username |-> username,
                    group |-> group, registered_at |-> ThisSecond])]

\* DELETE FROM users WHERE chat_id = ? AND user_id = ?
delete_user(table, chat_id, user_id) ==
    [table EXCEPT ![chat_id] =
        SelectSeq(@, LAMBDA row : row.user_id # user_id)]

\* DELETE FROM users
clear_all_users(table) == [c \in Chats |-> <<>>]

\* the table when the second now running is over: every row is of an
\* earlier second
second_over(table) ==
    [c \in Chats |->
        [k \in 1..Len(table[c]) |->
            [table[c][k] EXCEPT !.registered_at = Earlier]]]

----------------------------------------------------------------------------
(* The /calculate handler of src/telegram_bot_v2.py.  A call runs from one *)
(* await to the next without interruption; calls interleave at the awaits. *)

\* what get_outages_for_group returns for the group of a user when the
\* request succeeds: the definite outages of today and of tomorrow
GroupFeed(group) ==
    CASE group = "1.1" ->
            [today |-> <<Outage(1500, 5000)>>, tomorrow |-> <<>>]
      [] group = "2.1" ->
            [today |-> <<Outage(0, 1500), Outage(12000, 24000)>>,
             tomorrow |-> <<Outage(3000, 12000)>>]
      [] OTHER ->
            [today |-> <<Outage(3000, 12000)>>,
             tomorrow |-> <<Outage(0, 24000)>>]

\* the entry appended for a user whose schedule was fetched
BotEntry(user, outages) ==
    [user_id |-> user.user_id, username |-> user.username,
     group |-> user.group, outages |-> outages]

\* for user in users: the fetch of the users in failed raises and adds an
\* error; every other user is appended to both lists
RECURSIVE fetch_schedules(_, _, _)
fetch_schedules(users, failed, lists) ==
    IF users = <<>> THEN lists
    ELSE LET user == Head(users)
             schedule == GroupFeed(user.group)
         IN  fetch_schedules(Tail(users), failed,
                IF user.user_id \in failed
                THEN [lists EXCEPT !.errors = Append(@, user.username)]
                ELSE [lists EXCEPT
                        !.schedules_today =
                            Append(@, BotEntry(user, schedule.today)),
                        !.schedules_tomorrow =
                            Append(@, BotEntry(user, schedule.tomorrow))])

\* the check is forgotten: no chat is ever taken to be in flight
in_flight_never(chats, chat_id) == FALSE

\* if chat_id in calculating_chats
in_flight(chats, chat_id) == chat_id \in chats

\* the chat is never released
release_never(chats, chat_id) == chats

\* finally: calculating_chats.discard(chat_id)
release(chats, chat_id) == chats \ {chat_id}

\* only an empty list is taken to be too short
too_few_only_empty(schedules_today) == Len(schedules_today) = 0

\* if len(schedules_today) < 2
too_few(schedules_today) == Len(schedules_today) < 2

\* the calls that are past the in-flight check and have not returned
Awaiting ==
    {"reply_nobody", "reply_one_user", "reply_loading", "edit_errors",
     "edit_report", "reply_error"}

\* the call has returned: its locals are gone
Returned(inv, how) ==
    [NewInvocation EXCEPT !.pc = how, !.chat_id = inv.chat_id]

\* the bag of calls with the call inv at its next await, or over
Step(inv, next) == (invocations (-) SetToBag({inv})) (+) SetToBag({next})

\* a /calculate arrives for a chat: the call runs to its first await, or
\* returns at once when the chat is in flight; get_chat_users returns the
\* chat's users, or no user when sqlite raises
Begin ==
    /\ BagCardinality(invocations) < MaxInvocations
    /\ \E chat_id \in Chats :
        IF in_flight(calculating_chats, chat_id)
        THEN /\ invocations' = invocations (+) SetToBag({
                    [NewInvocation EXCEPT
                        !.pc = "skipped", !.chat_id = chat_id]})
             /\ UNCHANGED calculating_chats
        ELSE \E raised \in BOOLEAN :
             LET users == IF raised THEN <<>>
                          ELSE get_chat_users(registered, chat_id)
                 first == IF Len(users) = 0 THEN "reply_nobody"
                          ELSE IF Len(users) = 1 THEN "reply_one_user"
                          ELSE "reply_loading"
             IN  /\ calculating_chats' = calculating_chats \cup {chat_id}
                 /\ invocations' = invocations (+) SetToBag({
                        [NewInvocation EXCEPT
                            !.pc = first, !.chat_id = chat_id,
                            !.users = users, !.sends = <<first>>]})
    /\ UNCHANGED <<registered, analysis_vars>>

\* the reply to a chat with no or one user was sent: return, then finally
ReplyReturns ==
    /\ \E inv \in BagToSet(invocations) :
        /\ inv.pc \in {"reply_nobody", "reply_one_user"}
        /\ invocations' = Step(inv, Returned(inv, "done"))
        /\ calculating_chats' =
                release(calculating_chats, inv.chat_id)
    /\ UNCHANGED <<registered, analysis_vars>>

\* the loading message was sent: the schedules are fetched, each fetch
\* failing or not, and with two or more of them the common periods are
\* computed; the call then awaits the edit of the loading message
LoadingReturns ==
    /\ \E inv \in BagToSet(invocations) :
        /\ inv.pc = "reply_loading"
        /\ \E failed \in SUBSET {inv.users[k].user_id :
                                    k \in 1..Len(inv.users)} :
            LET lists == fetch_schedules(inv.users, failed,
                            [schedules_today |-> <<>>,
                             schedules_tomorrow |-> <<>>, errors |-> <<>>])
                fetched == [inv EXCEPT
                    !.schedules_today = lists.schedules_today,
                    !.schedules_tomorrow = lists.schedules_tomorrow,
                    !.errors = lists.errors]
            IN  invocations' = Step(inv,
                    IF too_few(lists.schedules_today)
                    THEN [fetched EXCEPT
                            !.pc = "edit_errors",
                            !.sends = Append(@, "edit_errors")]
                    ELSE [fetched EXCEPT
                            !.analysed = TRUE,
                            !.common_today = find_common_electricity_periods(
                                                lists.schedules_today)[1],
                            !.common_tomorrow = find_common_electricity_periods(
                                                lists.schedules_tomorrow)[1],
                            !.pc = "edit_report",
                            !.sends = Append(@, "edit_report")])
    /\ UNCHANGED <<registered, calculating_chats, analysis_vars>>

\* the loading message was edited: return, then finally
EditReturns ==
    /\ \E inv \in BagToSet(invocations) :
        /\ inv.pc \in {"edit_errors", "edit_report"}
        /\ invocations' = Step(inv, Returned(inv, "done"))
        /\ calculating_chats' =
                release(calculating_chats, inv.chat_id)
    /\ UNCHANGED <<registered, analysis_vars>>

\* an awaited send raises: except Exception, and the error reply is awaited
AwaitRaises ==
    /\ \E inv \in BagToSet(invocations) :
        /\ inv.pc \in Awaiting \ {"reply_error"}
        /\ invocations' = Step(inv, [inv EXCEPT
                !.pc = "reply_error",
                !.sends = Append(@, "reply_error")])
    /\ UNCHANGED <<registered, calculating_chats, analysis_vars>>

\* the call is cancelled at an awaited send: CancelledError is no
\* Exception, so the except clause is passed over and finally alone runs
AwaitCancelled ==
    /\ \E inv \in BagToSet(invocations) :
        /\ inv.pc \in Awaiting \ {"reply_error"}
        /\ invocations' = Step(inv, Returned(inv, "done"))
        /\ calculating_chats' = release(calculating_chats, inv.chat_id)
    /\ UNCHANGED <<registered, analysis_vars>>

\* the error reply was sent, or raised or was cancelled and the bare except
\* passed it over: finally
ErrorReplyEnds ==
    /\ \E inv \in BagToSet(invocations) :
        /\ inv.pc = "reply_error"
        /\ invocations' = Step(inv, Returned(inv, "done"))
        /\ calculating_chats' =
                release(calculating_chats, inv.chat_id)
    /\ UNCHANGED <<registered, analysis_vars>>

\* a call that has returned is gone
Forget ==
    /\ \E inv \in BagToSet(invocations) :
        /\ inv.pc \in {"done", "skipped"}
        /\ invocations' = invocations (-) SetToBag({inv})
    /\ UNCHANGED <<registered, calculating_chats, analysis_vars>>

----------------------------------------------------------------------------
(* The calls on the users table, and the clock that stamps its rows *)

\* a call of register_user: the row is written and True returned, or
\* sqlite raises, nothing is written and False is returned
RegisterUser ==
    /\ op = "idle"
    /\ \E chat_id \in Chats, user_id \in DbUsers, profile \in DbProfiles,
          raised \in BOOLEAN :
        /\ registered' = IF raised THEN registered
                         ELSE register_user(registered, chat_id, user_id,
                                            profile[1], profile[2])
        /\ arg' = <<chat_id, user_id, profile[1], profile[2]>>
        /\ ret' = ~raised
    /\ op' = "register_user"
    /\ UNCHANGED <<schedules, calculating_chats, invocations>>

\* a call of delete_user: the row is deleted and True returned, or sqlite
\* raises, nothing is deleted and False is returned
DeleteUser ==
    /\ op = "idle"
    /\ \E chat_id \in Chats, user_id \in DbUsers, raised \in BOOLEAN :
        /\ registered' = IF raised THEN registered
                         ELSE delete_user(registered, chat_id, user_id)
        /\ arg' = <<chat_id, user_id>>
        /\ ret' = ~raised
    /\ op' = "delete_user"
    /\ UNCHANGED <<schedules, calculating_chats, invocations>>

\* a call of get_user: the pair's row or None is returned, or sqlite
\* raises and None is returned
GetUser ==
    /\ op = "idle"
    /\ \E chat_id \in Chats, user_id \in DbUsers, raised \in BOOLEAN :
        /\ arg' = <<chat_id, user_id>>
        /\ ret' = IF raised THEN None
                  ELSE get_user(registered, chat_id, user_id)
    /\ op' = "get_user"
    /\ UNCHANGED <<schedules, registered, calculating_chats, invocations>>

\* a call of clear_all_users, which returns nothing: the table is emptied,
\* or sqlite raises and the table is as it was
ClearAllUsers ==
    /\ op = "idle"
    /\ \E raised \in BOOLEAN :
        registered' = IF raised THEN registered
                      ELSE clear_all_users(registered)
    /\ op' = "clear_all_users"
    /\ arg' = <<>>
    /\ ret' = None
    /\ UNCHANGED <<schedules, calculating_chats, invocations>>

\* the clock of the database reaches the next second: the rows written in
\* the second that is over are no longer of the second now running
SecondPasses ==
    /\ registered' = second_over(registered)
    /\ registered' # registered
    /\ UNCHANGED <<calculating_chats, invocations, analysis_vars>>

NextDb ==
    \/ RegisterUser
    \/ DeleteUser
    \/ GetUser
    \/ ClearAllUsers
    \/ SecondPasses
    \/ Discard

SpecDb == Init /\ [][NextDb]_vars

----------------------------------------------------------------------------
(* The bot as a whole: the calls of /calculate interleaved at their awaits *)
(* with the handlers of /register and /unregister, which run to their      *)
(* reply without an await in between, and with the seconds of the clock    *)
(* that stamps the registrations                                           *)

\* the senders of /register and /unregister, as <<chat_id, user_id>>: three
\* users of chat 1; in the other chats nobody registers
CommandSenders == {1} \X (1..3)

\* /register <group> <name>: the sender's row is written with the name and
\* the group of the command, or register_user returns False for an error
\* of sqlite and nothing is written; either way a reply is sent
RegisterCommand ==
    /\ \E sender \in CommandSenders, raised \in BOOLEAN :
        LET chat_id == sender[1]
            user_id == sender[2]
            name == UserRow(user_id).username
            group == UserRow(user_id).group
        IN  registered' =
                IF raised THEN registered
                ELSE register_user(registered, chat_id, user_id, name, group)
    /\ UNCHANGED <<calculating_chats, invocations, analysis_vars>>

\* /unregister: when get_user finds the sender's row it is deleted; when
\* there is none, or get_user returns None or delete_user False for an
\* error of sqlite, the handler only replies
UnregisterCommand ==
    /\ \E sender \in CommandSenders, raised \in BOOLEAN :
        LET chat_id == sender[1]
            user_id == sender[2]
        IN  registered' =
                IF raised \/ select_user(registered, chat_id, user_id) = <<>>
                THEN registered
                ELSE delete_user(registered, chat_id, user_id)
    /\ UNCHANGED <<calculating_chats, invocations, analysis_vars>>

NextBot ==
    \/ Begin
    \/ ReplyReturns
    \/ LoadingReturns
    \/ EditReturns
    \/ AwaitRaises
    \/ AwaitCancelled
    \/ ErrorReplyEnds
    \/ Forget
    \/ RegisterCommand
    \/ UnregisterCommand
    \/ SecondPasses

SpecBot == Init /\ [][NextBot]_vars

----------------------------------------------------------------------------
(* The report of src/schedule_analyzer.py.  The report is the list of its  *)
(* lines, which the program joins with "\n"; the fixed texts are spelled   *)
(* in ASCII here (the program's are Cyrillic, with a mark after the day).  *)

\* at most this many periods in a report
MaxPeriods == 3

\* the periods a report is made of, in any order
ReportPeriods ==
    {<<0, 90>>, <<90, 120>>, <<120, 605>>, <<605, 1439>>, <<720, 1440>>,
     <<0, 1440>>}

\* the day names the bot passes
DayNames == {"SOGODNI", "ZAVTRA"}

\* the minutes are shown on the hour as well
minutes_to_hm_with_minutes(minutes) ==
    ToString(minutes \div 60) \o ":" \o Pad02d(minutes % 60)

\* minutes_to_hm: H, or H:MM when the minutes are not 0
minutes_to_hm(minutes) ==
    LET hours == minutes \div 60
        mins == minutes % 60
    IN  IF mins = 0 THEN ToString(hours)
        ELSE ToString(hours) \o ":" \o Pad02d(mins)

\* the line of one period
period_line(period) ==
    "  Z " \o minutes_to_hm(period[1]) \o " do " \o minutes_to_hm(period[2])

\* format_report: the single line for no period, or the line of the day
\* and a line for each period
format_report(day_name, common_periods) ==
    IF common_periods = <<>>
    THEN <<day_name \o ": (x) Net vremeni, kogda u vseh svet odnovremenno">>
    ELSE <<day_name \o ": (v)">> \o
         [k \in 1..Len(common_periods) |-> period_line(common_periods[k])]

\* a call of format_report
FormatReport ==
    /\ op = "idle"
    /\ \E day_name \in DayNames,
          common_periods \in UNION {[1..n -> ReportPeriods] : n \in 0..MaxPeriods} :
        /\ arg' = <<day_name, common_periods>>
        /\ ret' = format_report(day_name, common_periods)
    /\ op' = "format_report"
    /\ UNCHANGED schedules
    /\ UNCHANGED bot_vars

NextReport == FormatReport \/ Discard

SpecReport == Init /\ [][NextReport]_vars

----------------------------------------------------------------------------
(* The outages of the example day of src/debug_analyzer.py, Anton's and    *)
(* Danilo's, in entries as the caller of the analysis builds them          *)

ScenarioA == <<Outage(1500, 5000), Outage(12000, 15500), Outage(22500, 24000)>>

ScenarioB == <<Outage(0, 1500), Outage(8500, 12000), Outage(19000, 22500)>>

\* the lists holding the elements of s, each once, in every order
Orderings(s) ==
    {[i \in 1..Len(s) |-> s[f[i]]] : f \in Permutations(1..Len(s))}

\* at most this many entries
MaxScenarioUsers == 2

\* the outages of either user, as listed or in any other order
ScenarioLists == Orderings(ScenarioA) \cup Orderings(ScenarioB)

\* the caller appends the entry of one more user with the outages fetched
AppendScenarioEntry ==
    /\ op = "idle"
    /\ Len(schedules) < MaxScenarioUsers
    /\ \E outages \in ScenarioLists :
        schedules' = Append(schedules, Entry(Len(schedules) + 1, outages))
    /\ UNCHANGED <<op, arg, ret>>
    /\ UNCHANGED bot_vars

NextScenario ==
    \/ AppendScenarioEntry
    \/ GetElectricityPeriods
    \/ FindCommonElectricityPeriods
    \/ FindNMinusOnePeriods
    \/ DebugSchedules
    \/ Discard

SpecScenario == Init /\ [][NextScenario]_vars

----------------------------------------------------------------------------
(* Vocabulary of the properties *)

\* the minutes of the day, [0, 1440)
Day == 0..(24 * 60 - 1)

\* the minutes m with start <= m < end for some period of the list
Covered(periods) ==
    UNION {periods[k][1]..(periods[k][2] - 1) : k \in 1..Len(periods)}

\* the outages of one user in minutes, in the order given
OutageMinutes(outages) ==
    [i \in 1..Len(outages) |->
        <<convert_hour_to_minutes(outages[i].start_hour),
          convert_hour_to_minutes(outages[i].end_hour)>>]

\* the minutes at which the user has no power
OutageCover(outages) == Covered(OutageMinutes(outages))

\* every outage has 0 <= start < end <= 1440
ValidOutages(outages) ==
    \A i \in 1..Len(outages) :
        LET o == OutageMinutes(outages)[i]
        IN  0 <= o[1] /\ o[1] < o[2] /\ o[2] <= 24 * 60

\* no two outages of the list share a minute
NonOverlapping(outages) ==
    \A i, j \in 1..Len(outages) :
        i < j =>
            LET a == OutageMinutes(outages)[i]
                b == OutageMinutes(outages)[j]
            IN  a[2] <= b[1] \/ b[2] <= a[1]

\* every user's outages are valid and do not overlap one another
AllProper(scheds) ==
    \A s \in 1..Len(scheds) :
        ValidOutages(scheds[s].outages) /\ NonOverlapping(scheds[s].outages)

\* every minute of the day lies in exactly one interval of the list: the
\* intervals cover the day and no two of them share a minute
ExactlyOnceOverDay(intervals) ==
    /\ Covered(intervals) = Day
    /\ \A i, j \in 1..Len(intervals) :
        i < j =>
            (intervals[i][1]..(intervals[i][2] - 1)) \cap
            (intervals[j][1]..(intervals[j][2] - 1)) = {}

----------------------------------------------------------------------------
(* C1 *)

\* C1: for two or more entries with valid, non-overlapping outages, the
\* minutes covered by the common periods are exactly the minutes of the day
\* at which no user has an outage.
C1_CommonIsWhereNobodyIsOut ==
    (op = "find_common_electricity_periods" /\ Len(arg) >= 2 /\ AllProper(arg)) =>
        Covered(ret[1]) =
            Day \ UNION {OutageCover(arg[s].outages) : s \in 1..Len(arg)}

\* three users, each with an outage, and two common periods left
C1_Witness ==
    /\ op = "find_common_electricity_periods"
    /\ Len(arg) >= 2
    /\ AllProper(arg)
    /\ \E s \in 1..Len(arg) : Len(arg[s].outages) >= 2
    /\ Len(ret[1]) = 2

----------------------------------------------------------------------------
(* C2 *)

\* C2 as stated: for any outage list with 0 <= start < end <= 1440, every
\* minute of the day lies in exactly one window or exactly one outage.
C2_PartitionAnyList ==
    (op = "get_electricity_periods" /\ ValidOutages(arg)) =>
        ExactlyOnceOverDay(ret \o get_outage_intervals(arg))

\* C2 amended: the same for outage lists whose outages do not overlap one
\* another: windows and outages partition the day.
C2_PartitionNonOverlapping ==
    (op = "get_electricity_periods" /\ ValidOutages(arg) /\ NonOverlapping(arg)) =>
        ExactlyOnceOverDay(ret \o get_outage_intervals(arg))

\* an unsorted list of two outages with a window before, between and after
C2_Witness ==
    /\ op = "get_electricity_periods"
    /\ ValidOutages(arg) /\ NonOverlapping(arg)
    /\ Len(arg) = 2
    /\ arg[1].start_hour > arg[2].start_hour
    /\ Len(ret) >= 2

----------------------------------------------------------------------------
(* C3 *)

\* the list holds exactly the outages of s, each once, in some order
IsOrderingOf(outages, s) == outages \in Orderings(s)

\* C3: on the example day, A's windows are [(0,90),(300,720),(930,1350)],
\* B's are [(90,510),(720,1140),(1350,1440)], and the common periods of
\* [A, B] are exactly [(300,510),(930,1140)].
C3_ExampleDay ==
    /\ (op = "get_electricity_periods" /\ IsOrderingOf(arg, ScenarioA)) =>
        /\ get_outage_intervals(arg) = << <<90, 300>>, <<720, 930>>, <<1350, 1440>> >>
        /\ ret = << <<0, 90>>, <<300, 720>>, <<930, 1350>> >>
    /\ (op = "get_electricity_periods" /\ IsOrderingOf(arg, ScenarioB)) =>
        /\ get_outage_intervals(arg) = << <<0, 90>>, <<510, 720>>, <<1140, 1350>> >>
        /\ ret = << <<90, 510>>, <<720, 1140>>, <<1350, 1440>> >>
    /\ (/\ op = "find_common_electricity_periods"
        /\ Len(arg) = 2
        /\ IsOrderingOf(arg[1].outages, ScenarioA)
        /\ IsOrderingOf(arg[2].outages, ScenarioB)) =>
        ret = << << <<300, 510>>, <<930, 1140>> >>, <<>> >>

\* the common periods of [A, B] were computed, the outages as listed
C3_Witness ==
    /\ op = "find_common_electricity_periods"
    /\ Len(arg) = 2
    /\ arg[1].outages = ScenarioA
    /\ arg[2].outages = ScenarioB
    /\ Len(ret[1]) = 2

----------------------------------------------------------------------------
(* C4 *)

\* the entries of scheds at the indexes I, in their order
SubCollection(scheds, I) ==
    LET idx == SortedPoints(I)
    IN  [k \in 1..Len(idx) |-> scheds[idx[k]]]

\* C4 as stated: every minute common to S is common to every sub-collection
\* of S, of any size.
C4_MonotonicAnySubset ==
    (op = "find_common_electricity_periods" /\ AllProper(arg)) =>
        \A I \in SUBSET (1..Len(arg)) :
            Covered(ret[1]) \subseteq
                Covered(find_common_electricity_periods(SubCollection(arg, I))[1])

\* C4 amended: every minute common to S is common to every non-empty
\* sub-collection of S.
C4_MonotonicNonEmptySubset ==
    (op = "find_common_electricity_periods" /\ AllProper(arg)) =>
        LET whole == Covered(ret[1])
        IN  \A I \in SUBSET (1..Len(arg)) :
                I # {} =>
                    whole \subseteq
                        Covered(find_common_electricity_periods(
                                    SubCollection(arg, I))[1])

\* three users with common minutes, and two of them alone share more
C4_Witness ==
    /\ op = "find_common_electricity_periods"
    /\ AllProper(arg)
    /\ Len(arg) = 3
    /\ ret[1] # <<>>
    /\ \E I \in SUBSET (1..3) :
        /\ Cardinality(I) = 2
        /\ Covered(ret[1]) #
            Covered(find_common_electricity_periods(SubCollection(arg, I))[1])

----------------------------------------------------------------------------
(* C5 *)

\* C5: for a single entry the common periods are the entry's windows, the
\* same list in the same order.
C5_SingleUserIdentity ==
    (op = "find_common_electricity_periods" /\ Len(arg) = 1) =>
        ret[1] = get_electricity_periods(arg[1].outages)

\* one user with two outages given unsorted, and windows returned
C5_Witness ==
    /\ op = "find_common_electricity_periods"
    /\ Len(arg) = 1
    /\ Len(arg[1].outages) = 2
    /\ arg[1].outages[1].start_hour > arg[1].outages[2].start_hour
    /\ Len(ret[1]) >= 2

----------------------------------------------------------------------------
(* C6 *)

\* C6: for entries of any number, the common periods are each within the
\* day with start < end, ascending by start, pairwise disjoint, and merged:
\* no period ends where the next one starts.
C6_CommonSortedDisjointMerged ==
    (op = "find_common_electricity_periods"
        /\ \A s \in 1..Len(arg) : ValidOutages(arg[s].outages)) =>
        /\ \A k \in 1..Len(ret[1]) :
            0 <= ret[1][k][1] /\ ret[1][k][1] < ret[1][k][2]
                /\ ret[1][k][2] <= 24 * 60
        /\ \A k \in 1..(Len(ret[1]) - 1) :
            /\ ret[1][k][1] < ret[1][k + 1][1]
            /\ ret[1][k][2] # ret[1][k + 1][1]
        /\ \A j, k \in 1..Len(ret[1]) :
            j < k =>
                (ret[1][j][1]..(ret[1][j][2] - 1)) \cap
                (ret[1][k][1]..(ret[1][k][2] - 1)) = {}

\* the sweep over three users with overlapping outages returned two periods
C6_Witness ==
    /\ op = "find_common_electricity_periods"
    /\ Len(arg) = 3
    /\ \E s \in 1..3 : ~NonOverlapping(arg[s].outages)
    /\ Len(ret[1]) = 2

----------------------------------------------------------------------------
(* C7 *)

\* the period <<start, end>> lies entirely inside one interval of the list
InsideOne(start, end, intervals) ==
    \E k \in 1..Len(intervals) :
        intervals[k][1] <= start /\ end <= intervals[k][2]

\* C7: with two or more entries, every returned period tagged with user e
\* lies inside one of e's outage intervals and inside one of the common
\* periods of the entries without e.
C7_ExclusionConsistency ==
    (op = "find_n_minus_one_periods" /\ Len(arg) >= 2) =>
        \A r \in 1..Len(ret) :
            \E e \in 1..Len(arg) :
                /\ arg[e].user_id = ret[r].missing_user_id
                /\ ret[r].start < ret[r].end
                /\ InsideOne(ret[r].start, ret[r].end,
                             get_outage_intervals(arg[e].outages))
                /\ InsideOne(ret[r].start, ret[r].end,
                             find_common_electricity_periods(
                                 other_schedules(arg, e))[1])

\* three users, and a period returned that is shorter than the outage and
\* shorter than the others' common period it was cut from
C7_Witness ==
    /\ op = "find_n_minus_one_periods"
    /\ Len(arg) = 3
    /\ \E r \in 1..Len(ret) :
        LET e == ret[r].missing_user_id
            common == find_common_electricity_periods(other_schedules(arg, e))[1]
        IN  /\ <<ret[r].start, ret[r].end>> \notin
                    {get_outage_intervals(arg[e].outages)[k] :
                        k \in 1..Len(arg[e].outages)}
            /\ <<ret[r].start, ret[r].end>> \notin
                    {common[k] : k \in 1..Len(common)}

----------------------------------------------------------------------------
(* C8 *)

\* the minutes of the returned periods tagged with the user id
TaggedCover(results, id) ==
    UNION {results[r].start..(results[r].end - 1) :
            r \in {q \in 1..Len(results) : results[q].missing_user_id = id}}

\* C8: with two or more entries with valid, non-overlapping outages, the
\* periods tagged with user e cover exactly the minutes at which e is in an
\* outage and every other user has power.
C8_ExclusionCompleteness ==
    (op = "find_n_minus_one_periods" /\ Len(arg) >= 2 /\ AllProper(arg)) =>
        \A e \in 1..Len(arg) :
            TaggedCover(ret, arg[e].user_id) =
                OutageCover(arg[e].outages) \
                    UNION {OutageCover(arg[s].outages) :
                            s \in (1..Len(arg)) \ {e}}

\* three users with outages, periods returned for two different users
C8_Witness ==
    /\ op = "find_n_minus_one_periods"
    /\ Len(arg) = 3
    /\ AllProper(arg)
    /\ \E q, r \in 1..Len(ret) :
        ret[q].missing_user_id # ret[r].missing_user_id

----------------------------------------------------------------------------
(* C9 *)

\* C9: get_electricity_periods returns the same window list for every
\* permutation of the outage list.
C9_PermutationInvariant ==
    op = "get_electricity_periods" =>
        \A perm \in Orderings(arg) : get_electricity_periods(perm) = ret

\* three different outages, given in descending order of start
C9_Witness ==
    /\ op = "get_electricity_periods"
    /\ Len(arg) = 3
    /\ arg[1].start_hour > arg[2].start_hour
    /\ arg[2].start_hour > arg[3].start_hour
    /\ ret # <<>>

----------------------------------------------------------------------------
(* C10 *)

\* the entries with a user without outages put in before position k
WithEmptyUser(scheds, k) ==
    SubSeq(scheds, 1, k - 1) \o <<Entry(Len(scheds) + 1, <<>>)>> \o
    SubSeq(scheds, k, Len(scheds))

\* C10: no outages give the single window (0, 1440); a user without outages
\* added to the entries, at any position, keeps every common minute, and for
\* one or more entries the common minutes stay the same.
C10_EmptyOutageUser ==
    /\ (op = "get_electricity_periods" /\ arg = <<>>) =>
        ret = << <<0, 24 * 60>> >>
    /\ op = "find_common_electricity_periods" =>
        LET before == Covered(ret[1])
        IN  \A k \in 1..(Len(arg) + 1) :
                LET with == Covered(find_common_electricity_periods(
                                        WithEmptyUser(arg, k))[1])
                IN  /\ before \subseteq with
                    /\ Len(arg) >= 1 => with = before

\* the common periods of two users with outages, some minutes common and
\* some not
C10_Witness ==
    /\ op = "find_common_electricity_periods"
    /\ Len(arg) = 2
    /\ \A s \in 1..2 : arg[s].outages # <<>>
    /\ ret[1] # <<>>

----------------------------------------------------------------------------
(* C11 *)

\* the windows of the two entries have no minute in common: each window of
\* the one ends no later than the other's starts, or starts no earlier than
\* it ends (a window always has start < end)
NoSharedMinute(scheds) ==
    LET a == get_electricity_periods(scheds[1].outages)
        b == get_electricity_periods(scheds[2].outages)
    IN  \A i \in 1..Len(a), j \in 1..Len(b) :
            a[i][2] <= b[j][1] \/ b[j][2] <= a[i][1]

\* C11: when the windows of two users share no minute, the call of
\* find_common_electricity_periods returns, and returns the pair of the
\* empty list of periods and the empty list, the shape of every other
\* result; no call ends in an error.
C11_NoOverlapIsEmptyList ==
    /\ op # "error"
    /\ (/\ op = "find_common_electricity_periods"
        /\ Len(arg) = 2
        /\ NoSharedMinute(arg)) => ret = << <<>>, <<>> >>

\* two users who both have windows, at no minute together
C11_Witness ==
    /\ op = "find_common_electricity_periods"
    /\ Len(arg) = 2
    /\ \A s \in 1..2 : get_electricity_periods(arg[s].outages) # <<>>
    /\ NoSharedMinute(arg)
    /\ ret = << <<>>, <<>> >>

----------------------------------------------------------------------------
(* C12 *)

\* C12: for outages with start < end, overlapping or not and in any order,
\* the windows of get_electricity_periods ascend by start and no two of them
\* overlap: each ends no later than the next one starts.
C12_WindowsSortedDisjoint ==
    (op = "get_electricity_periods" /\ ValidOutages(arg)) =>
        \A i \in 1..(Len(ret) - 1) :
            /\ ret[i][1] < ret[i + 1][1]
            /\ ret[i][2] <= ret[i + 1][1]

\* outages given out of order, two of them overlapping, with two windows
C12_Witness ==
    /\ op = "get_electricity_periods"
    /\ ValidOutages(arg)
    /\ ~NonOverlapping(arg)
    /\ get_outage_intervals(arg) #
        [i \in 1..Len(arg) |->
            <<convert_hour_to_minutes(arg[i].start_hour),
              convert_hour_to_minutes(arg[i].end_hour)>>]
    /\ Len(ret) >= 2

----------------------------------------------------------------------------
(* C13 *)

\* C13: whatever the outages, reversed and empty ones included, every window
\* of get_electricity_periods has 0 <= start < end <= 1440; a single outage
\* from minute 0 leaves only the window after it, a single outage to minute
\* 1440 only the window before it, and the full day leaves no window.
C13_NoEmptyWindow ==
    op = "get_electricity_periods" =>
        /\ \A i \in 1..Len(ret) :
            0 <= ret[i][1] /\ ret[i][1] < ret[i][2] /\ ret[i][2] <= 24 * 60
        /\ Len(arg) = 1 =>
            LET s == convert_hour_to_minutes(arg[1].start_hour)
                e == convert_hour_to_minutes(arg[1].end_hour)
            IN  /\ s = 0 => \A i \in 1..Len(ret) : ret[i] = <<e, 24 * 60>>
                /\ e = 24 * 60 => \A i \in 1..Len(ret) : ret[i] = <<0, s>>
                /\ (s = 0 /\ e = 24 * 60) => ret = <<>>

\* the full day as the single outage, and no window
C13_Witness ==
    /\ op = "get_electricity_periods"
    /\ arg = <<Outage(0, 24000)>>
    /\ ret = <<>>

----------------------------------------------------------------------------
(* C14 *)

\* the outages [0,100] and [50,150] in minutes, in either order
IsPartialOverlapExample(outages) ==
    \/ outages = <<Outage(0, 1667), Outage(834, 2500)>>
    \/ outages = <<Outage(834, 2500), Outage(0, 1667)>>

\* the outages [0,150] and [50,100] in minutes, in either order
IsContainedExample(outages) ==
    \/ outages = <<Outage(0, 2500), Outage(834, 1667)>>
    \/ outages = <<Outage(834, 1667), Outage(0, 2500)>>

\* C14 as the spec states it: the windows for the outages [0,100] and
\* [50,150] are not the window (150,1440) of the merged outage [0,150].
C14_PartialOverlapWrongGap ==
    (op = "get_electricity_periods" /\ IsPartialOverlapExample(arg)) =>
        ret # << <<150, 24 * 60>> >>

\* C14: the windows for the outages [0,100] and [50,150] are the single
\* window (150,1440), the availability of the merged outage; the gap goes
\* wrong when an outage lies inside an earlier one: [0,150] and [50,100]
\* give (100,1440), which holds the outage minutes 100 to 150.
C14_OverlapExamples ==
    op = "get_electricity_periods" =>
        /\ IsPartialOverlapExample(arg) => ret = << <<150, 24 * 60>> >>
        /\ IsContainedExample(arg) => ret = << <<100, 24 * 60>> >>

\* the call on the outages [50,150], [0,100]
C14_Witness ==
    /\ op = "get_electricity_periods"
    /\ arg = <<Outage(834, 2500), Outage(0, 1667)>>
    /\ ret = << <<150, 24 * 60>> >>

----------------------------------------------------------------------------
(* C15 *)

\* C15: the minutes of an hour value are 60 times its whole hours plus the
\* whole minutes of its fraction, the fraction's minutes cut and never
\* rounded up; 1.999 hours are 119 minutes, 0 hours 0 and 24 hours 1440.
\* The program breaks it: on 2.3 hours it returns 137 minutes, one short
\* of the 138 that 2 hours and 0.3 * 60 = 18 whole minutes make.
C15_Truncation ==
    op = "convert_hour_to_minutes" =>
        LET whole == arg \div 1000
            frac == arg - whole * 1000
            m == ret - whole * 60
        IN  /\ 0 <= m /\ m <= 59
            /\ m * 1000 <= frac * 60
            /\ frac * 60 < (m + 1) * 1000
            /\ arg = 1999 => ret = 119
            /\ arg = 0 => ret = 0
            /\ arg = 24000 => ret = 24 * 60

\* 2.3 hours converted to 137 minutes
C15_Witness ==
    /\ op = "convert_hour_to_minutes"
    /\ arg = 2300
    /\ ret = 137

----------------------------------------------------------------------------
(* C16 *)

\* a sequence, as a Python list is
IsList(v) == DOMAIN v = 1..Len(v)

\* some outage of the entries ends no later than it starts
HasReversedOutage(scheds) ==
    \E s \in 1..Len(scheds) : \E o \in 1..Len(scheds[s].outages) :
        scheds[s].outages[o].start_hour >= scheds[s].outages[o].end_hour

\* C16: on outages of any shape, reversed, empty and overlapping ones
\* included, no call of the three operations ends in an error; each returns
\* a list, find_common_electricity_periods as the first of its pair.
C16_NeverFails ==
    /\ op # "error"
    /\ op \in {"get_electricity_periods", "find_n_minus_one_periods"} =>
        IsList(ret)
    /\ op = "find_common_electricity_periods" =>
        IsList(ret[1]) /\ ret[2] = <<>>

\* the exclusions of three users, one without outages and one with a
\* reversed outage
C16_Witness ==
    /\ op = "find_n_minus_one_periods"
    /\ Len(arg) = 3
    /\ HasReversedOutage(arg)
    /\ \E s \in 1..3 : arg[s].outages = <<>>
    /\ IsList(ret)

----------------------------------------------------------------------------
(* C17 *)

\* the three operations
AnalysisOps ==
    {"get_electricity_periods", "find_common_electricity_periods",
     "find_n_minus_one_periods"}

\* run on Python's objects, each operation returns what the analysis
\* defines, and the list passed is the caller's list
ReturnsTheAnalysis ==
    /\ op = "get_electricity_periods" => ret = get_electricity_periods(arg)
    /\ op = "find_common_electricity_periods" =>
        ret = find_common_electricity_periods(arg) /\ schedules = arg
    /\ op = "find_n_minus_one_periods" =>
        ret = find_n_minus_one_periods(arg) /\ schedules = arg

\* the step of a call leaves the caller's list, each entry in it and each
\* entry's outage list, in order and contents, as they were
CallerListKept ==
    (op = "idle" /\ op' \in AnalysisOps) => schedules' = schedules

\* C17: the three operations write nothing outside their return value: when
\* one of them has returned, the objects of the caller read from the heap
\* the call leaves are the caller's schedule list, every entry and every
\* entry's outage list as they were before the call, in order and contents,
\* whether or not the outages were passed in order.
C17_ArgumentsUntouched ==
    [](ReturnsTheAnalysis) /\ [][CallerListKept]_vars

\* the exclusions of users whose outages were passed out of order
C17_Witness ==
    /\ op = "find_n_minus_one_periods"
    /\ Len(arg) >= 2
    /\ \E s \in 1..Len(arg) : arg[s].outages # SortedOutages(arg[s].outages)
    /\ ret # <<>>
    /\ schedules = arg

----------------------------------------------------------------------------
(* C18 *)

\* the calls past the in-flight check that have not returned
InFlight == {inv \in BagToSet(invocations) : inv.pc \in Awaiting}

\* no two calls in flight are for the same chat, and a call that returned
\* at the check has read no user, fetched nothing and sent nothing
OneInFlightPerChat ==
    /\ \A inv \in InFlight : CopiesIn(inv, invocations) = 1
    /\ \A inv, other \in InFlight :
        inv.chat_id = other.chat_id => inv = other
    /\ \A inv \in BagToSet(invocations) :
        inv.pc = "skipped" => inv = Returned(inv, "skipped")

\* a call that begins returns at the check exactly when another call for
\* the same chat is in flight; calls in flight for other chats do not count
SkippedOnlyForSameChat ==
    \A inv \in BagToSet(invocations') :
        (/\ BagCardinality(invocations') = BagCardinality(invocations) + 1
         /\ CopiesIn(inv, invocations') = CopiesIn(inv, invocations) + 1) =>
            (inv.pc = "skipped" <=>
                \E other \in InFlight : other.chat_id = inv.chat_id)

\* C18: however the calls interleave at their awaits, at most one call per
\* chat is past the in-flight check; a further call for that chat returns
\* without fetching or analysing, and a call is turned away only by a call
\* in flight for its own chat, never by one for another chat.
C18_OneCalculationPerChat ==
    [](OneInFlightPerChat) /\ [][SkippedOnlyForSameChat]_vars

\* a call has analysed and awaits its edit while a second call for the same
\* chat has returned at the check
C18_Witness ==
    \E inv, other \in BagToSet(invocations) :
        /\ inv.pc = "edit_report"
        /\ other.pc = "skipped"
        /\ other.chat_id = inv.chat_id

----------------------------------------------------------------------------
(* C19 *)

\* C19: the chats in calculating_chats are exactly the chats of the calls
\* in flight: every way out of a call, by return or by exception, takes its
\* chat out, so that the next call for the chat passes the check, and a call
\* turned away at the check leaves the chat of the call in flight in.
C19_MarkedWhileInFlight ==
    calculating_chats = {inv.chat_id : inv \in InFlight}

\* a call has returned after a second call for its chat was turned away,
\* and the chat is free again
C19_Witness ==
    \E inv, other \in BagToSet(invocations) :
        /\ inv.pc = "done"
        /\ other.pc = "skipped"
        /\ other.chat_id = inv.chat_id
        /\ inv.chat_id \notin calculating_chats

----------------------------------------------------------------------------
(* C20 *)

\* the user ids of the entries, in order
UserIds(entries) == [k \in 1..Len(entries) |-> entries[k].user_id]

\* the rows of the users whose fetch added no error, in order
RowsWithoutError(inv) ==
    SelectSeq(inv.users, LAMBDA u :
        \A k \in 1..Len(inv.errors) : inv.errors[k] # u.username)

\* C20: a call computes common periods only from two or more entries; after
\* the fetches the entries are the users without a failed fetch, in the
\* order of the users, the same for today and tomorrow, and two or more of
\* them are analysed; with fewer than two fetched or fewer than two
\* registered nothing is analysed and the call sends a message instead.
C20_CallerPolicy ==
    \A inv \in BagToSet(invocations) :
        /\ inv.analysed =>
            Len(inv.schedules_today) >= 2 /\ Len(inv.schedules_tomorrow) >= 2
        /\ UserIds(inv.schedules_today) = UserIds(inv.schedules_tomorrow)
        /\ inv.pc \in {"edit_errors", "edit_report"} =>
            /\ UserIds(inv.schedules_today) = UserIds(RowsWithoutError(inv))
            /\ Len(inv.schedules_today) + Len(inv.errors) = Len(inv.users)
            /\ inv.analysed <=> Len(inv.schedules_today) >= 2
            /\ inv.sends = <<"reply_loading", inv.pc>>
            /\ inv.pc = "edit_errors" <=> Len(inv.schedules_today) < 2
        /\ (inv.pc \in Awaiting /\ Len(inv.users) < 2) =>
            /\ ~inv.analysed
            /\ inv.sends[1] = IF Len(inv.users) = 0 THEN "reply_nobody"
                              ELSE "reply_one_user"

\* one fetch of three failed and the other two users were analysed
C20_Witness ==
    \E inv \in BagToSet(invocations) :
        /\ inv.pc = "edit_report"
        /\ Len(inv.users) = 3
        /\ Len(inv.errors) = 1
        /\ Len(inv.schedules_today) = 2
        /\ inv.analysed

----------------------------------------------------------------------------
(* C21 *)

\* C21: in a call of find_common_electricity_periods on two or more
\* entries, between two adjacent boundary points p and q every user has
\* power at every minute of [p, q) exactly when the user has power at p, so
\* the test at p alone decides the whole of [p, q).
C21_SamplingSound ==
    (op = "find_common_electricity_periods" /\ Len(arg) >= 2) =>
        LET all_points == SortedPoints(collect_points(arg))
        IN  \A i \in 1..(Len(all_points) - 1), s \in 1..Len(arg) :
                LET periods == get_electricity_periods(arg[s].outages)
                    at_point == has_power(periods, all_points[i])
                IN  \A m \in all_points[i]..(all_points[i + 1] - 1) :
                        has_power(periods, m) <=> at_point

\* two users with outages, four or more boundary points and a common
\* period that starts after minute 0
C21_Witness ==
    /\ op = "find_common_electricity_periods"
    /\ Len(arg) >= 2
    /\ \A s \in 1..2 : arg[s].outages # <<>>
    /\ Cardinality(collect_points(arg)) >= 4
    /\ ret[1] # <<>>
    /\ ret[1][1][1] > 0

----------------------------------------------------------------------------
(* C23 *)

\* the results that exclude the user, in the order of the list
ResultsOf(results, id) ==
    SelectSeq(results, LAMBDA r : r.missing_user_id = id)

\* the excluded users of the results, without repetition, follow one
\* another as the users do in the entries
FollowsUserOrder(results, scheds) ==
    \A a, b \in 1..Len(results) :
        a < b =>
            \E x, y \in 1..Len(scheds) :
                /\ x <= y
                /\ scheds[x].user_id = results[a].missing_user_id
                /\ scheds[y].user_id = results[b].missing_user_id

\* C23: for two or more entries, every permutation of the entries gives
\* the identical list of common periods; for find_n_minus_one_periods it
\* gives the same results for each excluded user, and the results follow the
\* order in which the excluded users stand in the permuted entries.
C23_UserOrderIndependent ==
    /\ (op = "find_common_electricity_periods" /\ Len(arg) >= 2) =>
        \A perm \in Orderings(arg) :
            find_common_electricity_periods(perm) = ret
    /\ (op = "find_n_minus_one_periods" /\ Len(arg) >= 2) =>
        \A perm \in Orderings(arg) :
            LET results == find_n_minus_one_periods(perm)
            IN  /\ \A s \in 1..Len(arg) :
                    ResultsOf(results, arg[s].user_id) =
                        ResultsOf(ret, arg[s].user_id)
                /\ Len(results) = Len(ret)
                /\ FollowsUserOrder(results, perm)

\* the exclusions of three users, two of them with results
C23_Witness ==
    /\ op = "find_n_minus_one_periods"
    /\ Len(arg) = 3
    /\ \E a, b \in 1..Len(ret) :
        ret[a].missing_user_id # ret[b].missing_user_id

----------------------------------------------------------------------------
(* C22 *)

\* the minutes m with start <= m < end for some period of the set
CoveredBySet(periods) == UNION {p[1]..(p[2] - 1) : p \in periods}

\* C22: for two or more entries with valid outages that do not overlap, the
\* periods of debug_schedules cover the minutes that the periods of
\* find_common_electricity_periods cover, and the windows of every user are
\* the same list in both modules.
C22_ModulesAgree ==
    (op = "debug_schedules" /\ Len(arg) >= 2 /\ AllProper(arg)) =>
        /\ CoveredBySet(ret) =
                Covered(find_common_electricity_periods(arg)[1])
        /\ \A s \in 1..Len(arg) :
            Debug_get_electricity_periods(arg[s].outages) =
                get_electricity_periods(arg[s].outages)

\* three users with outages and two or more common periods
C22_Witness ==
    /\ op = "debug_schedules"
    /\ Len(arg) = 3
    /\ AllProper(arg)
    /\ \A s \in 1..3 : arg[s].outages # <<>>
    /\ Cardinality(ret) >= 2

----------------------------------------------------------------------------
(* C24 *)

\* the registration of a pair: the dicts of its rows, name and group
registration(table, chat_id, user_id) ==
    LET rows == select_user(table, chat_id, user_id)
    IN  [k \in 1..Len(rows) |-> UserDict(rows[k])]

\* the value returned is None, told from a dict by how it prints
IsNone(value) == ToString(value) = ToString(None)

\* at most one row per pair
OneRowPerPair ==
    \A chat_id \in Chats, user_id \in DbUsers :
        Len(select_user(registered, chat_id, user_id)) <= 1

StoreHoldsLatest ==
    /\ OneRowPerPair
    /\ (op = "register_user" /\ ret) =>
        registration(registered, arg[1], arg[2]) =
            <<[user_id |-> arg[2], username |-> arg[3], group |-> arg[4]]>>
    /\ (op = "delete_user" /\ ret) =>
        registration(registered, arg[1], arg[2]) = <<>>
    /\ op = "get_user" =>
        LET rows == registration(registered, arg[1], arg[2])
        IN  IsNone(ret) \/ (rows # <<>> /\ ret = rows[1])

\* a step that is not a call of clear_all_users changes the registration
\* of no pair but the one registered or deleted, whatever the second, and
\* not even that one when the call returns False
OtherPairsKept ==
    op' # "clear_all_users" =>
        \A chat_id \in Chats, user_id \in DbUsers :
            (\/ op' \notin {"register_user", "delete_user"}
             \/ <<arg'[1], arg'[2]>> # <<chat_id, user_id>>
             \/ ~ret') =>
                registration(registered', chat_id, user_id) =
                    registration(registered, chat_id, user_id)

----------------------------------------------------------------------------
(* C25 *)

\* the compact clock of a minute: the hour alone on the hour, otherwise the
\* hour, a colon and the minutes in two digits
CompactClock(m) ==
    IF m % 60 = 0 THEN ToString(m \div 60)
    ELSE ToString(m \div 60) \o ":" \o
         (IF m % 60 < 10 THEN "0" ELSE "") \o ToString(m % 60)

\* C25: the report of no period is exactly one line; the report of one or
\* more periods is the line of the day followed by one line per period, in
\* the order of the periods, each with the compact clock of the period's
\* start and of its end; 120 is shown as "2", 90 as "1:30".
C25_ReportLines ==
    /\ minutes_to_hm(120) = "2"
    /\ minutes_to_hm(90) = "1:30"
    /\ op = "format_report" =>
        LET common_periods == arg[2]
        IN  IF common_periods = <<>> THEN Len(ret) = 1
            ELSE /\ Len(ret) = Len(common_periods) + 1
                 /\ \A k \in 1..Len(common_periods) :
                        ret[k + 1] =
                            "  Z " \o CompactClock(common_periods[k][1]) \o
                            " do " \o CompactClock(common_periods[k][2])

\* a report of three periods given out of order, one from 1:30 to 2
C25_Witness ==
    /\ op = "format_report"
    /\ Len(arg[2]) = 3
    /\ arg[2][1][1] > arg[2][2][1]
    /\ ret[4] = "  Z 1:30 do 2"

====
